---- MODULE Spec2Model ----
(***************************************************************************)
(* Payment lifecycle of the LiTPS back office: the Payment / Invoice       *)
(* ledger, the gateway initiation handlers, the Stripe webhook, the PayPal *)
(* capture and the read handler of backend/controllers/paymentController.js*)
(* together with the middleware order of backend/server.js and             *)
(* routes/payments.js.                                                     *)
(*                                                                         *)
(* One action is one request handled from its first line to its response.  *)
(* What the outside world decides (the caller, the ids in the request, the *)
(* answer of a gateway, whether the mail transport throws, the value of    *)
(* process.env.SMS_ENABLED) is an input of the action.                     *)
(***************************************************************************)
EXTENDS Integers, FiniteSets, Sequences, TLC

(***************************************************************************)
(* Bounds of the model.                                                    *)
(***************************************************************************)
\* Payment (and Invoice) records in the ledger store.
NumPayments == 1
\* Gateway transactions (Stripe intents, PayPal orders) the gateways issue.
MaxTxn == 2

(***************************************************************************)
(* Identities.                                                             *)
(***************************************************************************)
\* Payment._id values of the stored payments; payment p belongs to client p.
PaymentIds == 1..NumPayments

\* What findById / findOne return when nothing matches (null).
NoPayment == 0

\* An _id that is well formed but matches no stored payment.
MissingPaymentId == NumPayments + 1

\* The ids a request may carry as paymentId / :id.
RequestedIds == PaymentIds \cup {MissingPaymentId}

\* The client accounts: the owners of the payments and one client more, who
\* owns none.
ClientIds == 1..(NumPayments + 1)

AdminId == NumPayments + 2

\* req.user as the auth middleware supplies it: a client or the admin.
Callers ==
  [id : ClientIds, role : {"client"}] \cup {[id |-> AdminId, role |-> "admin"]}

\* paymentGatewayId not set.
NoGatewayId == [gw |-> "none", n |-> 0]

\* The constant id the mock Stripe client returns ('mock_pi_123').
MockIntentId == [gw |-> "stripe", n |-> 0]

\* Ids of Stripe payment intents and of PayPal orders.
StripeIds == [gw : {"stripe"}, n : 0..MaxTxn]

PayPalIds == [gw : {"paypal"}, n : 1..MaxTxn]

GatewayIds == StripeIds \cup PayPalIds

VARIABLES
  payments,     \* the Payment collection: PaymentIds -> record
  invoices,     \* the Invoice collection, keyed by the payment it references
  issued,       \* gateway transactions created so far at Stripe / PayPal
  stripeMock,   \* TRUE when config/stripe.js fell back to the mock client
  mount,        \* where the payments router is mounted (see WebhookChain)
  now,          \* what new Date() reads while these requests are handled
  res           \* the response written by the request handled last

vars == <<payments, invoices, issued, stripeMock, mount, now, res>>

(***************************************************************************)
(* Schemas.                                                                *)
(***************************************************************************)
PaymentStatuses ==
  {"pending", "processing", "completed", "failed", "refunded", "cancelled"}

PaymentMethods == {"stripe", "paypal", "bank_transfer", "cash", "mobile_money"}

InvoiceStatuses == {"draft", "sent", "viewed", "paid", "overdue", "cancelled"}

\* The two ways the payments router can be reached.
Mounts == {"server", "router"}

\* A stored payment that no gateway handler has touched yet.
NewPayment(c) ==
  [client |-> c, status |-> "pending", paymentMethod |-> "bank_transfer",
   paymentGatewayId |-> NoGatewayId, paymentDetails |-> "none",
   paidAt |-> 0, receiptSent |-> FALSE]

\* The invoice of such a payment.
NewInvoice(s) == [status |-> s, paidAt |-> 0]

\* The response of a handler: the HTTP status and the notifications attempted
\* while handling (receipt emails, payment SMS). With it the model keeps two
\* facts about the request that was answered: for the webhook the req.body
\* that was handed to the verifier and what the request was (see EventClass),
\* and for the handlers that check ownership how the caller stands to the
\* payment asked for (see Standing); for a webhook event of a stored payment
\* also the status that payment had when the event arrived (see PriorStatus).
NoRes ==
  [op |-> "none", status |-> 0, emails |-> 0, sms |-> 0, payload |-> "none",
   who |-> "none", event |-> "none", prior |-> "none"]

Respond(op, status, emails, sms) ==
  [NoRes EXCEPT !.op = op, !.status = status, !.emails = emails, !.sms = sms]

Init ==
  /\ payments = [p \in PaymentIds |-> NewPayment(p)]
  /\ invoices = [p \in PaymentIds |-> NewInvoice("draft")]
  /\ issued = {}
  /\ stripeMock \in BOOLEAN
  /\ mount \in Mounts
  /\ now = 1
  /\ res = NoRes

(***************************************************************************)
(* Body parsing: server.js mounts express.json() and express.urlencoded()  *)
(* on the app before the routers; routes/payments.js puts express.raw() on *)
(* the webhook route itself.                                               *)
(***************************************************************************)
\* A webhook POST as it arrives: Stripe sends application/json, unread.
IncomingRequest ==
  [contentType |-> "application/json", body |-> "stream", parsed |-> FALSE]

\* express.json(): skips a request already parsed or of another type; else
\* reads the stream and leaves the parsed object in req.body.
ExpressJson(req) ==
  IF req.parsed THEN req
  ELSE IF req.contentType = "application/json"
       THEN [req EXCEPT !.body = "object", !.parsed = TRUE]
       ELSE [req EXCEPT !.body = "empty"]

\* express.urlencoded(): the same for form bodies.
ExpressUrlencoded(req) ==
  IF req.parsed THEN req
  ELSE IF req.contentType = "application/x-www-form-urlencoded"
       THEN [req EXCEPT !.body = "object", !.parsed = TRUE]
       ELSE [req EXCEPT !.body = IF req.body = "stream" THEN "empty" ELSE req.body]

\* express.raw({type: 'application/json'}): skips a request already parsed;
\* else leaves the unparsed bytes in req.body.
ExpressRaw(req) ==
  IF req.parsed THEN req
  ELSE IF req.contentType = "application/json"
       THEN [req EXCEPT !.body = "buffer", !.parsed = TRUE]
       ELSE [req EXCEPT !.body = "empty"]

\* The body parsers of the app, in the order server.js mounts them.
ServerMiddleware == <<"json", "urlencoded">>

\* The middleware of router.post('/stripe/webhook', ...).
WebhookRouteMiddleware == <<"raw">>

ApplyMiddleware(mw, req) ==
  CASE mw = "json" -> ExpressJson(req)
    [] mw = "urlencoded" -> ExpressUrlencoded(req)
    [] mw = "raw" -> ExpressRaw(req)

RECURSIVE RunChain(_, _)
RunChain(chain, req) ==
  IF chain = <<>> THEN req
  ELSE RunChain(Tail(chain), ApplyMiddleware(Head(chain), req))

\* The middleware a webhook request passes before handleStripeWebhook: that
\* of the app and then that of the route when the router is mounted as
\* server.js mounts it ("server"), that of the route alone when the router is
\* used without the app's body parsers ("router").
WebhookChain ==
  IF mount = "server" THEN ServerMiddleware \o WebhookRouteMiddleware
  ELSE WebhookRouteMiddleware

\* req.body as handleStripeWebhook receives it.
WebhookPayload == RunChain(WebhookChain, IncomingRequest).body

(***************************************************************************)
(* Gateway adapters.                                                       *)
(***************************************************************************)
\* The signature header is a valid signature of the raw bytes of the request.
SignatureVerifies(payload, sig) == payload = "buffer" /\ sig = "valid"

\* A constructEvent that returns the event without comparing the signature.
ConstructEventUnverified(payload, sig) == ~stripeMock

\* stripe.webhooks.constructEvent: TRUE when it returns the event, FALSE when
\* it throws. The mock client has no webhooks member, so the call throws.
ConstructEvent(payload, sig) ==
  IF stripeMock THEN FALSE ELSE SignatureVerifies(payload, sig)

\* The id of the next transaction a real gateway creates.
FreshTxn == Cardinality(issued \ {MockIntentId}) + 1

\* stripe.paymentIntents.create: the intent id, or NoGatewayId when it throws.
StripeCreateIntent(outcome) ==
  IF stripeMock THEN MockIntentId
  ELSE IF outcome = "ok" THEN [gw |-> "stripe", n |-> FreshTxn]
  ELSE NoGatewayId

(***************************************************************************)
(* Queries.                                                                *)
(***************************************************************************)
SetMin(S) == CHOOSE x \in S : \A y \in S : x <= y

\* Payment.findById(id)
FindById(id) == IF id \in DOMAIN payments THEN id ELSE NoPayment

\* A findOne whose filter is lost when nothing matches: the first payment.
FindOneIgnoringFilter(pays, gid) ==
  LET m == {p \in DOMAIN pays : pays[p].paymentGatewayId = gid}
  IN SetMin(IF m = {} THEN DOMAIN pays ELSE m)

\* Payment.findOne({ paymentGatewayId: gid }): the first stored match.
FindOneByGatewayId(pays, gid) ==
  LET m == {p \in DOMAIN pays : pays[p].paymentGatewayId = gid}
  IN IF m = {} THEN NoPayment ELSE SetMin(m)

\* How req.user stands to the payment a request names: the payment is
\* missing, or the caller is its owner, an admin, or a stranger to it.
Standing(user, paymentId) ==
  IF paymentId \notin DOMAIN payments THEN "missing"
  ELSE IF payments[paymentId].client = user.id THEN "owner"
  ELSE IF user.role = "admin" THEN "admin"
  ELSE "stranger"

\* The response of a handler that checks ownership.
RespondTo(user, paymentId, op, status) ==
  [Respond(op, status, 0, 0) EXCEPT !.who = Standing(user, paymentId)]

\* An ownership check that forgets the admin role.
NotAuthorizedUnlessOwner(payment, user) == payment.client # user.id

\* The ownership check shared by the initiate handlers and getPayment:
\* payment.client._id.toString() !== req.user.id && req.user.role !== 'admin'
NotAuthorized(payment, user) ==
  payment.client # user.id /\ user.role # "admin"

(***************************************************************************)
(* Helpers of the controller. Each returns the ledger as it leaves it and  *)
(* whether it threw.                                                       *)
(***************************************************************************)
\* sendPaymentReceipt: awaits sendEmail, which rethrows a transport error;
\* only after the email went out is receiptSent saved.
sendPaymentReceipt(pays, p, emailOk) ==
  [payments |-> IF emailOk THEN [pays EXCEPT ![p].receiptSent = TRUE] ELSE pays,
   threw |-> ~emailOk]

\* What a handler that found no payment leaves behind.
Untouched(pays, invs) ==
  [payments |-> pays, invoices |-> invs, threw |-> FALSE, emails |-> 0, sms |-> 0]

\* A success handler that leaves a payment that is already completed alone.
HandleSucceededOnce(pays, invs, id, t, emailOk, smsEnabled) ==
  LET p == FindOneByGatewayId(pays, id)
  IN IF p = NoPayment \/ pays[p].status = "completed" THEN Untouched(pays, invs)
     ELSE LET saved == [pays EXCEPT ![p].status = "completed",
                                    ![p].paidAt = t,
                                    ![p].paymentDetails = "paymentIntent"]
              receipt == sendPaymentReceipt(saved, p, emailOk)
          IN [payments |-> receipt.payments,
              invoices |-> [invs EXCEPT ![p].status = "paid", ![p].paidAt = t],
              threw |-> receipt.threw,
              emails |-> 1,
              sms |-> IF ~receipt.threw /\ smsEnabled THEN 1 ELSE 0]

\* handlePaymentIntentSucceeded(paymentIntent)
handlePaymentIntentSucceeded(pays, invs, id, t, emailOk, smsEnabled) ==
  LET p == FindOneByGatewayId(pays, id)
  IN IF p = NoPayment THEN Untouched(pays, invs)
     ELSE LET saved == [pays EXCEPT ![p].status = "completed",
                                    ![p].paidAt = t,
                                    ![p].paymentDetails = "paymentIntent"]
              paid == [invs EXCEPT ![p].status = "paid", ![p].paidAt = t]
              receipt == sendPaymentReceipt(saved, p, emailOk)
          IN [payments |-> receipt.payments,
              invoices |-> paid,
              threw |-> receipt.threw,
              emails |-> 1,
              sms |-> IF ~receipt.threw /\ smsEnabled THEN 1 ELSE 0]

\* handlePaymentIntentFailed(paymentIntent)
handlePaymentIntentFailed(pays, invs, id) ==
  LET p == FindOneByGatewayId(pays, id)
  IN IF p = NoPayment THEN Untouched(pays, invs)
     ELSE [Untouched(pays, invs) EXCEPT
             !.payments = [pays EXCEPT ![p].status = "failed"]]

\* The switch on event.type of handleStripeWebhook.
DispatchEvent(type, id, t, emailOk, smsEnabled) ==
  CASE type = "payment_intent.succeeded" ->
         handlePaymentIntentSucceeded(payments, invoices, id, t, emailOk, smsEnabled)
    [] type = "payment_intent.payment_failed" ->
         handlePaymentIntentFailed(payments, invoices, id)
    [] OTHER -> Untouched(payments, invoices)

\* The three assignments and the save that end createStripePaymentIntent.
StripeIntentSaved(pays, p, id) ==
  [pays EXCEPT ![p].paymentGatewayId = id,
               ![p].paymentMethod = "stripe",
               ![p].status = "processing"]

\* A createPayPalOrder that leaves the method of the payment as it was.
PayPalOrderSavedKeepsMethod(pays, p, id) ==
  [pays EXCEPT ![p].paymentGatewayId = id, ![p].status = "processing"]

\* The three assignments and the save that end createPayPalOrder.
PayPalOrderSaved(pays, p, id) ==
  [pays EXCEPT ![p].paymentGatewayId = id,
               ![p].paymentMethod = "paypal",
               ![p].status = "processing"]

(***************************************************************************)
(* Request handlers.                                                       *)
(***************************************************************************)
\* POST /api/payments/stripe/create-intent
createStripePaymentIntent(user, paymentId, outcome) ==
  LET p == FindById(paymentId)
      op == "createStripePaymentIntent"
  IN IF p = NoPayment
     THEN /\ res' = RespondTo(user, paymentId, op, 404)
          /\ UNCHANGED <<payments, invoices, issued, stripeMock, mount, now>>
     ELSE IF NotAuthorized(payments[p], user)
     THEN /\ res' = RespondTo(user, paymentId, op, 403)
          /\ UNCHANGED <<payments, invoices, issued, stripeMock, mount, now>>
     ELSE LET id == StripeCreateIntent(outcome)
          IN IF id = NoGatewayId
             THEN /\ res' = RespondTo(user, paymentId, op, 500)
                  /\ UNCHANGED <<payments, invoices, issued, stripeMock, mount, now>>
             ELSE /\ id = MockIntentId \/ FreshTxn <= MaxTxn
                  /\ issued' = issued \cup {id}
                  /\ payments' = StripeIntentSaved(payments, p, id)
                  /\ res' = RespondTo(user, paymentId, op, 200)
                  /\ UNCHANGED <<invoices, stripeMock, mount, now>>

\* POST /api/payments/paypal/create-order. The gateway answers with an order
\* ("ok"), with an error payload or no token ("error"), or with a body that
\* has neither an error nor an id ("unrecognized").
createPayPalOrder(user, paymentId, outcome) ==
  LET p == FindById(paymentId)
      op == "createPayPalOrder"
  IN IF p = NoPayment
     THEN /\ res' = RespondTo(user, paymentId, op, 404)
          /\ UNCHANGED <<payments, invoices, issued, stripeMock, mount, now>>
     ELSE IF NotAuthorized(payments[p], user)
     THEN /\ res' = RespondTo(user, paymentId, op, 403)
          /\ UNCHANGED <<payments, invoices, issued, stripeMock, mount, now>>
     ELSE IF outcome = "error"
     THEN /\ res' = RespondTo(user, paymentId, op, 500)
          /\ UNCHANGED <<payments, invoices, issued, stripeMock, mount, now>>
     ELSE LET id == IF outcome = "ok" THEN [gw |-> "paypal", n |-> FreshTxn]
                    ELSE NoGatewayId
          IN /\ outcome = "ok" => FreshTxn <= MaxTxn
             /\ issued' = IF outcome = "ok" THEN issued \cup {id} ELSE issued
             /\ payments' = PayPalOrderSaved(payments, p, id)
             /\ res' = RespondTo(user, paymentId, op,
                                  IF outcome = "ok" THEN 200 ELSE 500)
             /\ UNCHANGED <<invoices, stripeMock, mount, now>>

\* What a webhook request is, by its inputs and the payments stored when it
\* arrives: its signature does not fit the body the verifier is given
\* ("invalid"); it fits but the client has no verifier ("noverifier"); or the
\* event is constructed and is of a type the switch has no case for
\* ("unknown"), names an intent no payment holds ("unmatched"), or is the
\* success ("succeeded") or the failure ("failed") of a stored payment.
EventClass(sig, type, id) ==
  IF ~SignatureVerifies(WebhookPayload, sig) THEN "invalid"
  ELSE IF stripeMock THEN "noverifier"
  ELSE IF type \notin {"payment_intent.succeeded", "payment_intent.payment_failed"}
  THEN "unknown"
  ELSE IF \A p \in DOMAIN payments : payments[p].paymentGatewayId # id THEN "unmatched"
  ELSE IF type = "payment_intent.succeeded" THEN "succeeded"
  ELSE "failed"

\* The status, when a webhook request arrives, of the payment its event is
\* about: of the first stored payment that holds the intent id.
PriorStatus(sig, type, id) ==
  IF EventClass(sig, type, id) \notin {"succeeded", "failed"} THEN "none"
  ELSE LET first == CHOOSE p \in DOMAIN payments :
                      /\ payments[p].paymentGatewayId = id
                      /\ \A q \in 1..(p - 1) : payments[q].paymentGatewayId # id
       IN payments[first].status

\* POST /api/payments/stripe/webhook
handleStripeWebhook(sig, type, id, emailOk, smsEnabled) ==
  LET payload == WebhookPayload
      op == "handleStripeWebhook"
      answer(status, emails, sms) ==
        [Respond(op, status, emails, sms)
           EXCEPT !.payload = payload, !.event = EventClass(sig, type, id),
                  !.prior = PriorStatus(sig, type, id)]
  IN IF ~ConstructEvent(payload, sig)
     THEN /\ res' = answer(400, 0, 0)
          /\ UNCHANGED <<payments, invoices, issued, stripeMock, mount, now>>
     ELSE LET r == DispatchEvent(type, id, now, emailOk, smsEnabled)
          IN /\ payments' = r.payments
             /\ invoices' = r.invoices
             /\ res' = answer(IF r.threw THEN 500 ELSE 200, r.emails, r.sms)
             /\ UNCHANGED <<issued, stripeMock, mount, now>>

\* POST /api/payments/paypal/capture-order. captureData is an error payload
\* ("error") or carries a status ("COMPLETED", or another one: "DECLINED").
capturePayPalOrder(orderId, captureData, emailOk) ==
  LET op == "capturePayPalOrder"
      p == FindOneByGatewayId(payments, orderId)
  IN /\ captureData = "COMPLETED" => orderId \in issued /\ orderId.gw = "paypal"
     /\ IF captureData = "error"
        THEN /\ res' = Respond(op, 500, 0, 0)
             /\ UNCHANGED <<payments, invoices, issued, stripeMock, mount, now>>
        ELSE IF p = NoPayment
        THEN /\ res' = Respond(op, 404, 0, 0)
             /\ UNCHANGED <<payments, invoices, issued, stripeMock, mount, now>>
        ELSE IF captureData = "COMPLETED"
        THEN LET saved == [payments EXCEPT ![p].status = "completed",
                                           ![p].paidAt = now,
                                           ![p].paymentDetails = "captureData"]
                 receipt == sendPaymentReceipt(saved, p, emailOk)
             IN /\ payments' = receipt.payments
                /\ invoices' = [invoices EXCEPT ![p].status = "paid",
                                                ![p].paidAt = now]
                /\ res' = Respond(op, IF receipt.threw THEN 500 ELSE 200, 1, 0)
                /\ UNCHANGED <<issued, stripeMock, mount, now>>
        ELSE /\ payments' = [payments EXCEPT ![p].status = "failed"]
             /\ res' = Respond(op, 400, 0, 0)
             /\ UNCHANGED <<invoices, issued, stripeMock, mount, now>>

\* GET /api/payments/:id
getPayment(user, paymentId) ==
  LET p == FindById(paymentId)
      op == "getPayment"
      status == IF p = NoPayment THEN 404
                ELSE IF NotAuthorized(payments[p], user) THEN 403
                ELSE 200
  IN /\ res' = RespondTo(user, paymentId, op, status)
     /\ UNCHANGED <<payments, invoices, issued, stripeMock, mount, now>>

(***************************************************************************)
(* Inputs.                                                                 *)
(***************************************************************************)
GatewayOutcomes == {"ok", "error", "unrecognized"}

CaptureOutcomes == {"COMPLETED", "DECLINED", "error"}

EventTypes ==
  {"payment_intent.succeeded", "payment_intent.payment_failed", "charge.refunded"}

Signatures == {"valid", "invalid"}

\* Whether sendEmail resolves (TRUE) or throws (FALSE), drawn for the requests
\* that can reach a sendEmail call.
MailOutcomes(sends) == IF sends THEN BOOLEAN ELSE {TRUE}

\* process.env.SMS_ENABLED === 'true', drawn for the requests that read it.
SmsSettings(reads) == IF reads THEN BOOLEAN ELSE {FALSE}

StripeIntent ==
  \E user \in Callers, paymentId \in RequestedIds, outcome \in {"ok", "error"} :
    createStripePaymentIntent(user, paymentId, outcome)

PayPalOrder ==
  \E user \in Callers, paymentId \in RequestedIds, outcome \in GatewayOutcomes :
    createPayPalOrder(user, paymentId, outcome)

StripeWebhook ==
  \E sig \in Signatures, type \in EventTypes, id \in StripeIds :
    \E emailOk \in MailOutcomes(type = "payment_intent.succeeded"),
       smsEnabled \in SmsSettings(type = "payment_intent.succeeded") :
      handleStripeWebhook(sig, type, id, emailOk, smsEnabled)

PayPalCapture ==
  \E orderId \in GatewayIds, captureData \in CaptureOutcomes :
    \E emailOk \in MailOutcomes(captureData = "COMPLETED") :
      capturePayPalOrder(orderId, captureData, emailOk)

GetPayment ==
  \E user \in Callers, paymentId \in RequestedIds : getPayment(user, paymentId)

Next ==
  \/ StripeIntent
  \/ PayPalOrder
  \/ StripeWebhook
  \/ PayPalCapture
  \/ GetPayment

Spec == Init /\ [][Next]_vars

TypeOK ==
  /\ \A p \in PaymentIds :
       /\ payments[p].status \in PaymentStatuses
       /\ payments[p].paymentMethod \in PaymentMethods
       /\ payments[p].paymentGatewayId \in GatewayIds \cup {NoGatewayId}
       /\ payments[p].paidAt \in {0, now}
       /\ invoices[p].status \in InvoiceStatuses
  /\ issued \subseteq GatewayIds
  /\ mount \in Mounts

(***************************************************************************)
(* Properties.                                                             *)
(*                                                                         *)
(* A property about the requests of one kind is stated over the steps: a   *)
(* step is the step of the request handler(inputs) when handler(inputs)    *)
(* holds of the two states.                                                *)
(***************************************************************************)
\* The stored payments whose gateway transaction id is id.
Matching(id) == {p \in PaymentIds : payments[p].paymentGatewayId = id}

Ledger == <<payments, invoices>>

\* A webhook request the verifier accepts: the signature fits the body it is
\* given and the Stripe client is one that verifies.
Verified(sig) == SignatureVerifies(WebhookPayload, sig) /\ ~stripeMock

\* C1: a payment that is completed or failed never changes status again,
\* except completed -> refunded: no step takes it back to processing, turns
\* completed into failed or failed into completed.
TerminalStatusesAreFinal ==
  [][\A p \in PaymentIds :
       /\ payments[p].status = "failed" => payments'[p].status = "failed"
       /\ payments[p].status = "completed"
            => payments'[p].status \in {"completed", "refunded"}]_vars

\* C2: a webhook request whose signature does not verify is answered 400 and
\* changes no Payment and no Invoice, whatever event type and gateway id its
\* body carries.
InvalidSignatureRejected ==
  [][(res'.op = "handleStripeWebhook" /\ res'.event = "invalid")
     => /\ res'.status = 400
        /\ UNCHANGED Ledger]_vars

\* C2 happens: a request with a raw body was refused by a client that does
\* verify, while a payment waits for the confirmation of its Stripe intent.
InvalidSignatureRefused ==
  /\ res.op = "handleStripeWebhook"
  /\ res.event = "invalid"
  /\ res.status = 400
  /\ res.payload = "buffer"
  /\ ~stripeMock
  /\ \E p \in PaymentIds :
       /\ payments[p].paymentGatewayId \in StripeIds
       /\ payments[p].status = "processing"

\* C3: in the app of server.js every webhook request reaches the verifier
\* with its exact unparsed body: no JSON parser has consumed it before.
WebhookVerifierGetsRawBody ==
  (mount = "server" /\ res.op = "handleStripeWebhook") => res.payload = "buffer"

\* C4: a verified event whose id matches a stored payment sets that payment
\* by event type: succeeded -> completed, paidAt stamped, the event stored as
\* payment details, the invoice paid; failed -> failed; and in both cases the
\* event is acknowledged.
VerifiedEventSetsStatus ==
  [][res'.op = "handleStripeWebhook"
     => \A sig \in Signatures, id \in StripeIds,
           emailOk \in BOOLEAN, smsEnabled \in BOOLEAN :
          /\ (/\ Verified(sig)
              /\ handleStripeWebhook(sig, "payment_intent.succeeded", id,
                                     emailOk, smsEnabled))
             => \A p \in Matching(id) :
                  /\ payments'[p].status = "completed"
                  /\ payments'[p].paidAt = now
                  /\ payments'[p].paymentDetails = "paymentIntent"
                  /\ invoices'[p].status = "paid"
                  /\ res'.status = 200
          /\ (/\ Verified(sig)
              /\ handleStripeWebhook(sig, "payment_intent.payment_failed", id,
                                     emailOk, smsEnabled))
             => \A p \in Matching(id) :
                  /\ payments'[p].status = "failed"
                  /\ res'.status = 200]_vars

\* C5: a verified event of an unknown type, or one whose id matches no
\* payment, is acknowledged with 200, changes no Payment and no Invoice and
\* sends no notification.
UnmatchedEventIgnored ==
  [][(res'.op = "handleStripeWebhook" /\ res'.event \in {"unknown", "unmatched"})
     => /\ res'.status = 200
        /\ UNCHANGED Ledger
        /\ res'.emails = 0
        /\ res'.sms = 0]_vars

\* C5 happens: a verified event for an intent no payment holds was
\* acknowledged while a payment waits for the confirmation of its own intent.
UnmatchedEventAcknowledged ==
  /\ res.op = "handleStripeWebhook"
  /\ res.event = "unmatched"
  /\ res.status = 200
  /\ \E p \in PaymentIds :
       /\ payments[p].paymentGatewayId \in StripeIds
       /\ payments[p].status = "processing"

\* C6: a capture for an order id that matches a payment: on COMPLETED the
\* payment is completed, paidAt stamped, the invoice paid and the caller gets
\* success; on any other status the payment is failed, the invoice is not
\* touched and the caller gets a non-success result.
CaptureSetsStatus ==
  [][res'.op = "capturePayPalOrder"
     => \A orderId \in GatewayIds, emailOk \in BOOLEAN :
          /\ capturePayPalOrder(orderId, "COMPLETED", emailOk)
             => \A p \in Matching(orderId) :
                  /\ payments'[p].status = "completed"
                  /\ payments'[p].paidAt = now
                  /\ invoices'[p].status = "paid"
                  /\ res'.status = 200
          /\ capturePayPalOrder(orderId, "DECLINED", emailOk)
             => \A p \in Matching(orderId) :
                  /\ payments'[p].status = "failed"
                  /\ invoices' = invoices
                  /\ res'.status >= 400]_vars

\* C7: a receipt email that throws never surfaces: the verified succeeded
\* webhook of a matched payment is still acknowledged and the COMPLETED
\* capture still returns success, with the payment completed and its invoice
\* paid. (A throwing SMS is caught where it is sent and changes nothing.)
NotificationFailureNeverSurfaces ==
  [][res'.emails > 0
     => /\ \A sig \in Signatures, id \in StripeIds, smsEnabled \in BOOLEAN :
             (/\ Verified(sig)
              /\ handleStripeWebhook(sig, "payment_intent.succeeded", id,
                                     FALSE, smsEnabled))
             => /\ res'.status = 200
                /\ \A p \in Matching(id) :
                     /\ payments'[p].status = "completed"
                     /\ invoices'[p].status = "paid"
        /\ \A orderId \in GatewayIds :
             capturePayPalOrder(orderId, "COMPLETED", FALSE)
             => /\ res'.status = 200
                /\ \A p \in Matching(orderId) :
                     /\ payments'[p].status = "completed"
                     /\ invoices'[p].status = "paid"]_vars

\* C8: between requests an invoice is paid exactly when its payment is
\* completed (or refunded).
InvoicePaidIffPaymentCompleted ==
  \A p \in PaymentIds :
    invoices[p].status = "paid"
      <=> payments[p].status \in {"completed", "refunded"}

\* The handlers that check ownership.
OwnershipChecked == {"createStripePaymentIntent", "createPayPalOrder", "getPayment"}

\* C9: the initiate handlers and getPayment check alike: a missing payment
\* yields 404, otherwise a caller who is neither the owner nor an admin yields
\* 403; in both cases no gateway transaction is created and no record changes;
\* the owner and any admin get past both checks.
SameOwnershipChecks ==
  [][res'.op \in OwnershipChecked
     => /\ res'.who = "missing"
           => res'.status = 404 /\ UNCHANGED <<payments, invoices, issued>>
        /\ res'.who = "stranger"
           => res'.status = 403 /\ UNCHANGED <<payments, invoices, issued>>
        /\ res'.who \in {"owner", "admin"}
           => res'.status \notin {403, 404}]_vars

\* C9 happens: a client asked for a PayPal order on another client's payment,
\* which its owner had sent to Stripe, and was refused.
StrangerRefused ==
  /\ res.op = "createPayPalOrder"
  /\ res.who = "stranger"
  /\ res.status = 403
  /\ \E p \in PaymentIds : payments[p].paymentGatewayId \in StripeIds

\* The gateway an initiate handler talks to.
GatewayOf(op) ==
  IF op = "createStripePaymentIntent" THEN "stripe" ELSE "paypal"

\* C10: a successful initiate leaves a payment processing, with an id its
\* gateway issued and that gateway as method; and every payment that holds a
\* gateway transaction id has the issuer of that id as its method.
MethodMatchesGateway ==
  /\ \A p \in PaymentIds :
       payments[p].paymentGatewayId # NoGatewayId
         => /\ payments[p].paymentGatewayId \in issued
            /\ payments[p].paymentMethod = payments[p].paymentGatewayId.gw
  /\ (/\ res.op \in {"createStripePaymentIntent", "createPayPalOrder"}
      /\ res.status = 200)
     => \E p \in PaymentIds :
          /\ payments[p].status = "processing"
          /\ payments[p].paymentGatewayId \in issued
          /\ payments[p].paymentGatewayId.gw = GatewayOf(res.op)
          /\ payments[p].paymentMethod = GatewayOf(res.op)

\* C10 happens: a payment first sent to Stripe now holds a PayPal order.
SwitchedToPayPal ==
  \E p \in PaymentIds :
    /\ payments[p].paymentGatewayId \in PayPalIds
    /\ payments[p].paymentMethod = "paypal"
    /\ [gw |-> "stripe", n |-> 1] \in issued

\* The handlers that start a gateway transaction.
Initiations == {"createStripePaymentIntent", "createPayPalOrder"}

\* C11: a payment stores exactly the id returned by its most recent
\* successful initiation: its stored id changes only in a successful
\* initiation, to the id the gateway returned; and a webhook or capture that
\* carries an id the gateway issued earlier and the payment no longer holds
\* does not change that payment.
StoresLatestInitiationId ==
  [][/\ \A p \in PaymentIds :
          payments'[p].paymentGatewayId # payments[p].paymentGatewayId
            => /\ res'.op \in Initiations
               /\ res'.status = 200
               /\ payments'[p].paymentGatewayId \in issued'
     /\ res'.op \in {"handleStripeWebhook", "capturePayPalOrder"}
          => \A id \in issued, p \in PaymentIds :
               (/\ payments[p].paymentGatewayId # id
                /\ \/ \E sig \in Signatures, type \in EventTypes,
                         emailOk \in BOOLEAN, smsEnabled \in BOOLEAN :
                        handleStripeWebhook(sig, type, id, emailOk, smsEnabled)
                   \/ \E captureData \in CaptureOutcomes, emailOk \in BOOLEAN :
                        capturePayPalOrder(id, captureData, emailOk))
               => payments'[p] = payments[p]]_vars

(***************************************************************************)
(* POST /api/payments/create. In this specification payments and invoices  *)
(* are the two collections in insertion order, empty at the start, and     *)
(* each document carries the fields createPayment writes. Money is counted *)
(* in hundredths of the currency unit; item prices are whole units.        *)
(***************************************************************************)
\* Bounds of the requests.
MaxItems == 2

MaxQuantity == 2

\* A field the request left out (undefined).
Missing == -2

\* The Number that arithmetic on undefined yields.
NaN == -1

Hundredths == 100

Quantities == 1..MaxQuantity

UnitPrices == {50, 100}

ItemValues(S) == S \cup {Missing}

Items == [quantity : ItemValues(Quantities), unitPrice : ItemValues(UnitPrices)]

ItemLists == UNION {[1..n -> Items] : n \in 0..MaxItems}

\* req.body.items: left out, something that is not an array, or an array.
ItemArgs ==
  [kind : {"missing", "notalist"}, list : {<<>>}]
    \cup [kind : {"array"}, list : ItemLists]

\* req.body.dueDate in days: left out, or a date.
DueDates == {Missing, 10}

\* req.user.id: the account of a client, or one deleted since the token was
\* issued.
DeletedUser == 0

CreateCallers == {1, DeletedUser}

\* Validate required fields: !items || !Array.isArray(items) || items.length === 0
ItemsRejected(items) == items.kind # "array" \/ Len(items.list) = 0

\* JavaScript's * and + on Numbers and undefined.
Times(a, b) == IF a \in {Missing, NaN} \/ b \in {Missing, NaN} THEN NaN ELSE a * b

Plus(a, b) == IF a \in {Missing, NaN} \/ b \in {Missing, NaN} THEN NaN ELSE a + b

\* items.reduce((sum, item) => sum + (item.quantity * item.unitPrice), 0)
RECURSIVE SumItems(_)
SumItems(items) ==
  IF items = <<>> THEN 0
  ELSE LET n == Len(items)
       IN Plus(SumItems(SubSeq(items, 1, n - 1)),
               Times(Times(items[n].quantity, items[n].unitPrice), Hundredths))

\* const taxRate = 0.15, in hundredths
taxRate == 15

subtotal(items) == SumItems(items)

taxAmount(items) ==
  IF subtotal(items) = NaN THEN NaN ELSE (subtotal(items) * taxRate) \div Hundredths

totalAmount(items) == Plus(subtotal(items), taxAmount(items))

\* dueDate || new Date(Date.now() + 30 * 24 * 60 * 60 * 1000)
DefaultDueDays == 30

DueDateOf(dueDate) == IF dueDate = Missing THEN now + DefaultDueDays ELSE dueDate

\* The document handed to Payment.create.
PaymentDoc(user, items, dueDate) ==
  [invoiceNumber |-> Missing,
   client |-> user,
   amount |-> totalAmount(items),
   items |-> items,
   dueDate |-> DueDateOf(dueDate),
   status |-> "pending",
   paymentMethod |-> "pending"]

\* An item of an invoice: the schema adds the field total.
InvoiceItem(item, total) ==
  [quantity |-> item.quantity, unitPrice |-> item.unitPrice, total |-> total]

\* The document handed to Invoice.create.
InvoiceDoc(payment, user, items) ==
  [invoiceNumber |-> Missing,
   payment |-> payment.invoiceNumber,
   client |-> user,
   dueDate |-> payment.dueDate,
   items |-> [i \in 1..Len(items) |-> InvoiceItem(items[i], Missing)],
   subtotal |-> subtotal(items),
   taxRate |-> taxRate,
   taxAmount |-> taxAmount(items),
   totalAmount |-> totalAmount(items),
   status |-> "draft",
   sentAt |-> Missing,
   pdfUrl |-> FALSE]

\* Mongoose validates a document before the pre('save') hooks of its schema
\* run. paymentSchema: invoiceNumber required, amount a Number, paymentMethod
\* one of the enum.
PaymentValidates(doc) ==
  /\ doc.invoiceNumber # Missing
  /\ doc.amount \notin {Missing, NaN}
  /\ doc.dueDate # Missing
  /\ doc.paymentMethod \in PaymentMethods
  /\ doc.status \in PaymentStatuses

\* paymentSchema.pre('save'): count the documents, number the new one.
PaymentPreSave(doc, count) ==
  IF doc.invoiceNumber = Missing
  THEN [doc EXCEPT !.invoiceNumber = count + 1]
  ELSE doc

\* invoiceSchema: invoiceNumber, subtotal, totalAmount and, in every item,
\* quantity (min 1), unitPrice and total are required; the schema has no hook
\* that sets the number.
InvoiceValidates(doc) ==
  /\ doc.invoiceNumber # Missing
  /\ doc.subtotal \notin {Missing, NaN}
  /\ doc.totalAmount \notin {Missing, NaN}
  /\ doc.status \in InvoiceStatuses
  /\ \A i \in 1..Len(doc.items) :
       /\ doc.items[i].quantity \notin {Missing, NaN}
       /\ doc.items[i].quantity >= 1
       /\ doc.items[i].unitPrice \notin {Missing, NaN}
       /\ doc.items[i].total \notin {Missing, NaN}

\* this.items.reduce((sum, item) => sum + item.total, 0)
RECURSIVE SumTotals(_)
SumTotals(items) ==
  IF items = <<>> THEN 0
  ELSE LET n == Len(items)
       IN Plus(SumTotals(SubSeq(items, 1, n - 1)), items[n].total)

\* A hook that trusts the totals the document came with.
InvoicePreSaveKeepsTotals(doc) == doc

\* invoiceSchema.pre('save'): the totals are computed again from the items.
InvoicePreSave(doc) ==
  LET items == [i \in 1..Len(doc.items) |->
                  InvoiceItem(doc.items[i],
                              Times(Times(doc.items[i].quantity,
                                          doc.items[i].unitPrice), Hundredths))]
      sub == SumTotals(items)
      tax == IF sub = NaN THEN NaN ELSE (sub * doc.taxRate) \div Hundredths
  IN [doc EXCEPT !.items = items, !.subtotal = sub, !.taxAmount = tax,
                 !.totalAmount = Plus(sub, tax)]

\* The response of createPayment, with the request it answers and what
\* became of the two side effects: "notcalled", "ok" or "failed".
CreateResponse(status, req, rendered, emailed) ==
  [op |-> "createPayment", status |-> status, req |-> req,
   rendered |-> rendered, emailed |-> emailed]

NoRequest == [user |-> DeletedUser, items |-> [kind |-> "missing", list |-> <<>>],
              dueDate |-> Missing]

\* POST /api/payments/create. pdfOk: generateInvoicePDF resolves; emailOk:
\* sendInvoiceEmail resolves.
createPayment(user, items, dueDate, pdfOk, emailOk) ==
  LET req == [user |-> user, items |-> items, dueDate |-> dueDate]
      doc == PaymentDoc(user, items.list, dueDate)
      payment == PaymentPreSave(doc, Len(payments))
      invoiceDoc == InvoiceDoc(payment, user, items.list)
      invoice == InvoicePreSave(invoiceDoc)
      withPdf == InvoicePreSave([invoice EXCEPT !.pdfUrl = TRUE])
      sent == InvoicePreSave([withPdf EXCEPT !.status = "sent", !.sentAt = now])
  IN /\ UNCHANGED <<issued, stripeMock, mount, now>>
     /\ IF ItemsRejected(items)
        THEN /\ res' = CreateResponse(400, req, "notcalled", "notcalled")
             /\ UNCHANGED <<payments, invoices>>
        ELSE IF user = DeletedUser
        THEN /\ res' = CreateResponse(404, req, "notcalled", "notcalled")
             /\ UNCHANGED <<payments, invoices>>
        ELSE IF ~PaymentValidates(doc)
        THEN /\ res' = CreateResponse(500, req, "notcalled", "notcalled")
             /\ UNCHANGED <<payments, invoices>>
        ELSE /\ payments' = Append(payments, payment)
             /\ IF ~InvoiceValidates(invoiceDoc)
                THEN /\ res' = CreateResponse(500, req, "notcalled", "notcalled")
                     /\ UNCHANGED invoices
                ELSE IF ~pdfOk
                THEN /\ res' = CreateResponse(500, req, "failed", "notcalled")
                     /\ invoices' = Append(invoices, invoice)
                ELSE IF ~emailOk
                THEN /\ res' = CreateResponse(201, req, "ok", "failed")
                     /\ invoices' = Append(invoices, withPdf)
                ELSE /\ res' = CreateResponse(201, req, "ok", "ok")
                     /\ invoices' = Append(invoices, sent)

\* Whether a request gets as far as generateInvoicePDF.
Renders(user, items, dueDate) ==
  /\ ~ItemsRejected(items)
  /\ user # DeletedUser
  /\ PaymentValidates(PaymentDoc(user, items.list, dueDate))
  /\ InvoiceValidates(InvoiceDoc(PaymentPreSave(PaymentDoc(user, items.list, dueDate),
                                                Len(payments)),
                                 user, items.list))

\* Whether generateInvoicePDF resolves (TRUE) or rejects (FALSE), drawn for the
\* requests that call it.
RenderOutcomes(renders) == IF renders THEN BOOLEAN ELSE {TRUE}

CreatePayment ==
  \E user \in CreateCallers, items \in ItemArgs, dueDate \in DueDates :
    \E pdfOk \in RenderOutcomes(Renders(user, items, dueDate)) :
      \E emailOk \in MailOutcomes(pdfOk /\ Renders(user, items, dueDate)) :
        createPayment(user, items, dueDate, pdfOk, emailOk)

CreateInit ==
  /\ payments = <<>>
  /\ invoices = <<>>
  /\ issued = {}
  /\ stripeMock = FALSE
  /\ mount = "server"
  /\ now = 1
  /\ res = CreateResponse(0, NoRequest, "notcalled", "notcalled")

CreateNext == CreatePayment

CreateSpec == CreateInit /\ [][CreateNext]_vars

(***************************************************************************)
(* Properties of createPayment.                                            *)
(***************************************************************************)
\* An item with a numeric quantity and a numeric unit price.
WellFormed(item) == item.quantity # Missing /\ item.unitPrice # Missing

\* A request of an existing client with a non-empty list of well-formed items.
ValidRequest(req) ==
  /\ req.user # DeletedUser
  /\ req.items.kind = "array"
  /\ Len(req.items.list) > 0
  /\ \A i \in 1..Len(req.items.list) : WellFormed(req.items.list[i])

\* A request of an existing client whose items argument is missing, not a
\* list, empty, or holds a malformed item.
InvalidItemsRequest(req) == req.user # DeletedUser /\ ~ValidRequest(req)

\* The sum of quantity x unitPrice over the items of a valid request, in
\* hundredths.
RECURSIVE Subtotal(_)
Subtotal(list) ==
  IF list = <<>> THEN 0
  ELSE Head(list).quantity * Head(list).unitPrice * Hundredths + Subtotal(Tail(list))

\* The step persisted exactly one payment and one invoice, in that order.
PersistedOneEach ==
  /\ Len(payments') = Len(payments) + 1
  /\ Len(invoices') = Len(invoices) + 1
  /\ SubSeq(payments', 1, Len(payments)) = payments
  /\ SubSeq(invoices', 1, Len(invoices)) = invoices

\* C12: createPayment with items missing, not a list, empty or holding a
\* malformed item answers 400 and has no side effect: nothing is persisted,
\* no PDF is rendered, no email is sent.
InvalidItemsRejected ==
  [][(res'.op = "createPayment" /\ InvalidItemsRequest(res'.req))
     => /\ res'.status = 400
        /\ UNCHANGED <<payments, invoices>>
        /\ res'.rendered = "notcalled"
        /\ res'.emailed = "notcalled"]_vars

\* C13: a valid createPayment of an existing client persists exactly one
\* Payment, pending with method pending, and exactly one Invoice, created as
\* a draft, that references the payment and copies its due date, which is the
\* date given or else now + 30 days.
ValidRequestPersistsBoth ==
  [][(res'.op = "createPayment" /\ ValidRequest(res'.req))
     => /\ PersistedOneEach
        /\ LET payment == payments'[Len(payments')]
               invoice == invoices'[Len(invoices')]
           IN /\ payment.status = "pending"
              /\ payment.paymentMethod = "pending"
              /\ invoice.status \in {"draft", "sent"}
              /\ invoice.payment = payment.invoiceNumber
              /\ invoice.dueDate = payment.dueDate
              /\ payment.dueDate = IF res'.req.dueDate = Missing
                                   THEN now + DefaultDueDays
                                   ELSE res'.req.dueDate]_vars

\* C14: for every non-empty item list createPayment persists subtotal = the
\* sum of quantity x unitPrice, taxAmount = 15% of it, totalAmount = their
\* sum, and Payment.amount = Invoice.totalAmount.
TotalsPersisted ==
  [][(res'.op = "createPayment" /\ ValidRequest(res'.req))
     => /\ PersistedOneEach
        /\ LET payment == payments'[Len(payments')]
               invoice == invoices'[Len(invoices')]
               sum == Subtotal(res'.req.items.list)
           IN /\ invoice.subtotal = sum
              /\ invoice.taxAmount * 100 = sum * 15
              /\ invoice.totalAmount = invoice.subtotal + invoice.taxAmount
              /\ payment.amount = invoice.totalAmount]_vars

\* C16: in a valid createPayment the invoice ends sent, with sentAt stamped,
\* exactly when the invoice email went out; when the email throws the invoice
\* stays draft; either way both records are persisted and the call succeeds.
SentIffEmailed ==
  [][(res'.op = "createPayment" /\ ValidRequest(res'.req) /\ res'.rendered # "failed")
     => /\ PersistedOneEach
        /\ res'.status = 201
        /\ LET invoice == invoices'[Len(invoices')]
           IN /\ res'.emailed = "ok"
                   <=> invoice.status = "sent" /\ invoice.sentAt # Missing
              /\ res'.emailed # "ok" => invoice.status = "draft"]_vars

\* C18: the k-th payment created carries sequence number k, and so does the
\* k-th invoice in its own sequence: each valid createPayment adds a payment
\* and an invoice numbered one more than the records before it.
NumberedInSequence ==
  [][(res'.op = "createPayment" /\ ValidRequest(res'.req))
     => /\ PersistedOneEach
        /\ payments'[Len(payments')].invoiceNumber = Len(payments) + 1
        /\ invoices'[Len(invoices')].invoiceNumber = Len(invoices) + 1]_vars

(***************************************************************************)
(* Overdue payments: the virtuals of the Payment schema and                *)
(* POST /api/payments/send-reminders. In this specification the clock runs;*)
(* time is counted in half days and payments is a stored collection of     *)
(* payments of every status, due at different times.                       *)
(***************************************************************************)
\* Bounds.
NumReminded == 2

MaxTime == 3

\* 1000 * 60 * 60 * 24 milliseconds, in units of the clock.
DayLength == 2

RemindedIds == 1..NumReminded

DueTimes == {1, 2}

\* paymentSchema.virtual('isOverdue'), read at time t
isOverdue(payment, t) == payment.status = "pending" /\ t > payment.dueDate

\* A virtual that looks at the due date only.
DaysOverdueAnyStatus(payment, t) ==
  IF t > payment.dueDate THEN (t - payment.dueDate) \div DayLength ELSE 0

\* paymentSchema.virtual('daysOverdue'), read at time t
daysOverdue(payment, t) ==
  IF payment.status # "pending" \/ ~isOverdue(payment, t) THEN 0
  ELSE (t - payment.dueDate) \div DayLength

\* Payment.find({ status: 'pending', dueDate: { $lt: new Date() } }), in the
\* order of the collection.
RECURSIVE FindOverdue(_, _, _)
FindOverdue(pays, t, n) ==
  IF n = 0 THEN <<>>
  ELSE LET rest == FindOverdue(pays, t, n - 1)
       IN IF pays[n].status = "pending" /\ pays[n].dueDate < t
          THEN Append(rest, n)
          ELSE rest

\* What the loop of sendOverdueReminders has done so far.
NoReminders == [remindersSent |-> 0, errors |-> <<>>, attempted |-> <<>>]

\* A loop that lets the first exception end it.
RECURSIVE RemindUntilThrow(_, _)
RemindUntilThrow(overdue, throws) ==
  IF overdue = <<>> THEN NoReminders
  ELSE LET n == Len(overdue)
           done == RemindUntilThrow(SubSeq(overdue, 1, n - 1), throws)
       IN IF done.errors # <<>> THEN done
          ELSE IF overdue[n] \in throws
          THEN [done EXCEPT !.errors = Append(@, overdue[n]),
                            !.attempted = Append(@, overdue[n])]
          ELSE [done EXCEPT !.remindersSent = @ + 1,
                            !.attempted = Append(@, overdue[n])]

\* for (const payment of overduePayments) { try { await
\* sendOverdueReminder(payment); remindersSent++ } catch { errors.push } }
\* throws: the payments whose reminder throws.
RECURSIVE RemindAll(_, _)
RemindAll(overdue, throws) ==
  IF overdue = <<>> THEN NoReminders
  ELSE LET n == Len(overdue)
           done == RemindAll(SubSeq(overdue, 1, n - 1), throws)
       IN IF overdue[n] \in throws
          THEN [done EXCEPT !.errors = Append(@, overdue[n]),
                            !.attempted = Append(@, overdue[n])]
          ELSE [done EXCEPT !.remindersSent = @ + 1,
                            !.attempted = Append(@, overdue[n])]

\* The response of a request of this specification. failed: the overdue
\* payments whose reminder threw.
OverdueResponse(op, status, data, failed) ==
  [op |-> op, status |-> status, data |-> data, failed |-> failed]

\* POST /api/payments/send-reminders
sendOverdueReminders(throws) ==
  LET overduePayments == FindOverdue(payments, now, NumReminded)
      done == RemindAll(overduePayments, throws)
  IN /\ res' = OverdueResponse("sendOverdueReminders", 200,
                               [remindersSent |-> done.remindersSent,
                                totalOverdue |-> Len(overduePayments),
                                errors |-> done.errors,
                                attempted |-> done.attempted],
                               throws)
     /\ UNCHANGED <<payments, invoices, issued, stripeMock, mount, now>>

\* A read of the two virtuals of payment p.
ReadVirtuals(p) ==
  /\ res' = OverdueResponse("virtuals", 200,
                            [payment |-> p,
                             isOverdue |-> isOverdue(payments[p], now),
                             daysOverdue |-> daysOverdue(payments[p], now)],
                            {})
  /\ UNCHANGED <<payments, invoices, issued, stripeMock, mount, now>>

\* Time passes.
Tick ==
  /\ now < MaxTime
  /\ now' = now + 1
  /\ UNCHANGED <<payments, invoices, issued, stripeMock, mount, res>>

SendReminders ==
  \E throws \in SUBSET {p \in RemindedIds :
                          payments[p].status = "pending" /\ payments[p].dueDate < now} :
    sendOverdueReminders(throws)

Virtuals == \E p \in RemindedIds : ReadVirtuals(p)

OverdueInit ==
  /\ payments \in [RemindedIds -> [status : PaymentStatuses, dueDate : DueTimes]]
  /\ invoices = <<>>
  /\ issued = {}
  /\ stripeMock = FALSE
  /\ mount = "server"
  /\ now = 0
  /\ res = OverdueResponse("none", 0, [payment |-> 0], {})

OverdueNext ==
  \/ Tick
  \/ SendReminders
  \/ Virtuals

OverdueSpec == OverdueInit /\ [][OverdueNext]_vars

\* The pending payments past their due date.
Overdue == {p \in RemindedIds : payments[p].status = "pending" /\ now > payments[p].dueDate}

\* The elements of a sequence.
Range(seq) == {seq[i] : i \in 1..Len(seq)}

\* C19: isOverdue is true exactly for a pending payment read after its due
\* date, false for every other status whatever the date; daysOverdue is 0
\* when the payment is not overdue and otherwise the whole number of days
\* since the due date.
OverdueVirtuals ==
  [][(res'.op = "virtuals" /\ now' = now)
     => LET payment == payments[res'.data.payment]
            late == now - payment.dueDate
            days == res'.data.daysOverdue
        IN /\ res'.data.isOverdue <=> (payment.status = "pending" /\ late > 0)
           /\ payment.status # "pending" => ~res'.data.isOverdue
           /\ ~res'.data.isOverdue => days = 0
           /\ res'.data.isOverdue
                => days * DayLength <= late /\ late < (days + 1) * DayLength]_vars

\* C19 happens: a pending payment was read a whole day after its due date.
ReadADayLate ==
  /\ res.op = "virtuals"
  /\ res.data.isOverdue
  /\ res.data.daysOverdue = 1
  /\ \E p \in RemindedIds : payments[p].status = "completed" /\ payments[p].dueDate < now

\* C20: sendOverdueReminders attempts one reminder for each pending payment
\* past its due date, once each; a reminder that throws does not stop the
\* others; the call answers success with remindersSent + length(errors) =
\* totalOverdue and one error entry for each reminder that threw.
RemindersCompleteTheBatch ==
  [][(res'.op = "sendOverdueReminders" /\ now' = now)
     => /\ res'.status = 200
        /\ Range(res'.data.attempted) = Overdue
        /\ Len(res'.data.attempted) = Cardinality(Overdue)
        /\ res'.data.totalOverdue = Cardinality(Overdue)
        /\ res'.data.remindersSent + Len(res'.data.errors) = res'.data.totalOverdue
        /\ Range(res'.data.errors) = res'.failed
        /\ Len(res'.data.errors) = Cardinality(res'.failed)]_vars

\* C20 happens: of two overdue payments the reminder of the first threw and
\* the second was still sent.
SecondReminderSent ==
  /\ res.op = "sendOverdueReminders"
  /\ res.data.totalOverdue = 2
  /\ res.data.remindersSent = 1
  /\ res.data.errors = <<1>>
  /\ res.data.attempted = <<1, 2>>

(***************************************************************************)
(* The life of one invoice document under the Invoice schema: created,     *)
(* saved again with its PDF url, saved again as sent, updated to paid. In  *)
(* this specification res holds the document handed to Invoice.create,     *)
(* with whatever totals its author wrote, and invoices the collection.     *)
(***************************************************************************)
\* Totals a document may come with.
GivenAmounts == {0, 5000}

GivenTaxRates == {0, 15}

GivenItems ==
  [quantity : ItemValues(Quantities), unitPrice : UnitPrices,
   total : {Missing} \cup GivenAmounts]

GivenItemLists == UNION {[1..n -> GivenItems] : n \in 1..MaxItems}

\* The documents handed to Invoice.create.
GivenInvoices ==
  [invoiceNumber : {Missing, 1}, items : GivenItemLists, subtotal : GivenAmounts,
   taxRate : GivenTaxRates, taxAmount : {0}, totalAmount : GivenAmounts,
   status : {"draft"}, sentAt : {Missing}, paidAt : {Missing}, pdfUrl : {FALSE}]

InvoiceResponse(op, ok, doc) == [op |-> op, ok |-> ok, doc |-> doc]

\* document.save(): validation, then the pre('save') hooks, then the write.
InvoiceSave(doc) ==
  IF InvoiceValidates(doc)
  THEN [ok |-> TRUE, invoices |-> <<InvoicePreSave(doc)>>]
  ELSE [ok |-> FALSE, invoices |-> invoices]

\* Invoice.create(doc)
InvoiceCreate ==
  /\ invoices = <<>>
  /\ LET saved == InvoiceSave(res.doc)
     IN /\ invoices' = saved.invoices
        /\ res' = InvoiceResponse("create", saved.ok, res.doc)
  /\ UNCHANGED <<payments, issued, stripeMock, mount, now>>

\* invoice.pdfUrl = pdfUrl; await invoice.save()
InvoiceSavePdf ==
  /\ invoices # <<>>
  /\ LET saved == InvoiceSave([invoices[1] EXCEPT !.pdfUrl = TRUE])
     IN /\ invoices' = saved.invoices
        /\ res' = InvoiceResponse("pdf", saved.ok, res.doc)
  /\ UNCHANGED <<payments, issued, stripeMock, mount, now>>

\* invoice.status = 'sent'; invoice.sentAt = new Date(); await invoice.save()
InvoiceMarkSent ==
  /\ invoices # <<>>
  /\ LET saved == InvoiceSave([invoices[1] EXCEPT !.status = "sent", !.sentAt = now])
     IN /\ invoices' = saved.invoices
        /\ res' = InvoiceResponse("sent", saved.ok, res.doc)
  /\ UNCHANGED <<payments, issued, stripeMock, mount, now>>

\* Invoice.findOneAndUpdate({ payment }, { status: 'paid', paidAt }): an
\* update in the database, which runs no save hook.
InvoiceMarkPaid ==
  /\ invoices # <<>>
  /\ invoices' = <<[invoices[1] EXCEPT !.status = "paid", !.paidAt = now]>>
  /\ res' = InvoiceResponse("paid", TRUE, res.doc)
  /\ UNCHANGED <<payments, issued, stripeMock, mount, now>>

InvoiceInit ==
  /\ payments = <<>>
  /\ invoices = <<>>
  /\ issued = {}
  /\ stripeMock = FALSE
  /\ mount = "server"
  /\ now = 1
  /\ res \in [op : {"new"}, ok : {TRUE}, doc : GivenInvoices]

InvoiceNext ==
  \/ InvoiceCreate
  \/ InvoiceSavePdf
  \/ InvoiceMarkSent
  \/ InvoiceMarkPaid

InvoiceSpec == InvoiceInit /\ [][InvoiceNext]_vars

\* The sum of quantity x unitPrice over the items of an invoice, in
\* hundredths.
RECURSIVE ItemsSum(_)
ItemsSum(items) ==
  IF items = <<>> THEN 0
  ELSE Head(items).quantity * Head(items).unitPrice * Hundredths + ItemsSum(Tail(items))

\* C15: every persisted invoice has subtotal = the sum of quantity x
\* unitPrice over its items, taxAmount = subtotal x taxRate / 100 and
\* totalAmount = subtotal + taxAmount, after creation, the PDF-url save, the
\* sent transition and the paid update.
PersistedTotalsConsistent ==
  \A i \in 1..Len(invoices) :
    /\ invoices[i].subtotal = ItemsSum(invoices[i].items)
    /\ invoices[i].taxAmount * 100 = invoices[i].subtotal * invoices[i].taxRate
    /\ invoices[i].totalAmount = invoices[i].subtotal + invoices[i].taxAmount

\* C15 happens: an invoice that came with a subtotal and a total other than
\* those of its items was created, saved, sent and paid.
StaleTotalsPaid ==
  /\ Len(invoices) = 1
  /\ res.doc.subtotal # ItemsSum(invoices[1].items)
  /\ res.doc.totalAmount # invoices[1].totalAmount
  /\ invoices[1].taxRate = 15
  /\ invoices[1].pdfUrl
  /\ invoices[1].sentAt # Missing
  /\ invoices[1].status = "paid"

(***************************************************************************)
(* The capture route. routes/payments.js puts protect in front of          *)
(* /paypal/capture-order, so req.user is some authenticated account; the   *)
(* handler reads req.body.orderID and nothing of req.user.                 *)
(***************************************************************************)
\* POST /api/payments/paypal/capture-order as caller user sends it.
CaptureOrderRoute(user, orderId, captureData, emailOk) ==
  /\ user \in Callers
  /\ capturePayPalOrder(orderId, captureData, emailOk)

\* The payments whose status, or whose invoice, a step changes.
Settled ==
  {p \in PaymentIds : payments'[p].status # payments[p].status
                        \/ invoices'[p] # invoices[p]}

\* C27: a capture changes the status of a payment, and its invoice, only
\* when the caller is the client who owns that payment or an admin.
CaptureOnlyByOwnerOrAdmin ==
  [][\A user \in Callers, orderId \in GatewayIds, captureData \in CaptureOutcomes,
        emailOk \in BOOLEAN :
       CaptureOrderRoute(user, orderId, captureData, emailOk)
         => \A p \in Settled : Standing(user, p) \in {"owner", "admin"}]_vars

\* C28: a capture that answers 404 'Payment not found' has captured nothing
\* at the gateway.
NoCaptureWithoutPayment ==
  [][\A orderId \in GatewayIds, captureData \in CaptureOutcomes, emailOk \in BOOLEAN :
       (capturePayPalOrder(orderId, captureData, emailOk) /\ res'.status = 404)
         => captureData # "COMPLETED"]_vars

(***************************************************************************)
(* Redelivery. Stripe delivers an event at least once; between two         *)
(* deliveries of the same event time passes. Here the intents are created  *)
(* and their events delivered while the clock moves.                       *)
(***************************************************************************)
RedeliveryNext ==
  \/ StripeIntent
  \/ StripeWebhook
  \/ Tick

RedeliverySpec == Init /\ [][RedeliveryNext]_vars

TwoClientInit ==
  /\ payments = [p \in ClientIds |-> NewPayment(p)]
  /\ invoices = [p \in ClientIds |-> NewInvoice("draft")]
  /\ issued = {}
  /\ stripeMock \in BOOLEAN
  /\ mount \in Mounts
  /\ now = 1
  /\ res = NoRes

TwoClientSpec == TwoClientInit /\ [][Next]_vars

\* C25: no two payments hold the same gateway transaction id, whichever
\* Stripe client config/stripe.js exported.
GatewayIdsAreUnique ==
  \A p, q \in DOMAIN payments :
    (p # q /\ payments[p].paymentGatewayId # NoGatewayId)
      => payments[p].paymentGatewayId # payments[q].paymentGatewayId

(***************************************************************************)
(* SMSService.sendSMS of backend/services/smsService.js. In this           *)
(* specification res is the SMSService instance with the outcome of its    *)
(* last call: preferredGateway is set by the constructor and never written *)
(* again; attempts are the gateway sends of the call, in order, each with  *)
(* the number it was handed and whether the gateway accepted; logs are the *)
(* SMSLog documents the call stored.                                       *)
(***************************************************************************)
Gateways == {"hubtel", "mnotify", "africastalking"}

\* process.env.SMS_GATEWAY || 'hubtel': a known gateway or any other word.
PreferredGateways == Gateways \cup {"twilio"}

\* A phone number as the caller passes it: whether it carries characters
\* that are not digits ('+', '-', blanks), how its digits begin, and how many
\* digits it has.
PhoneNumbers == [punctuated : BOOLEAN, lead : {"231", "0", "7"}, len : {7, 8, 9, 10, 12}]

\* What formatLiberianNumber returns for a number it rejects (null).
Null == [plus |-> FALSE, digits |-> 0]

\* phoneNumber.replace(/\D/g, ''): the digits alone.
Cleaned(phoneNumber) == [lead |-> phoneNumber.lead, len |-> phoneNumber.len]

\* '+' followed by n digits.
International(n) == [plus |-> TRUE, digits |-> n]

\* formatLiberianNumber(phoneNumber)
formatLiberianNumber(phoneNumber) ==
  LET cleaned == Cleaned(phoneNumber)
  IN IF cleaned.lead = "231" THEN International(cleaned.len)
     ELSE IF cleaned.lead = "0" /\ cleaned.len = 10 THEN International(3 + cleaned.len - 1)
     ELSE IF cleaned.len = 9 THEN International(3 + cleaned.len)
     ELSE IF cleaned.len = 8 THEN International(3 + cleaned.len)
     ELSE Null

\* The enum of templateType in the SMSLog schema.
SmsTemplateTypes ==
  {"SHIPMENT_BOOKED", "SHIPMENT_IN_TRANSIT", "SHIPMENT_ARRIVED", "SHIPMENT_CLEARED",
   "SHIPMENT_DELIVERED", "PAYMENT_RECEIVED", "PAYMENT_OVERDUE", "PAYMENT_REMINDER",
   "QUOTE_READY", "URGENT_ACTION_REQUIRED", "DOCUMENT_REQUEST", "WELCOME_MESSAGE",
   "HELP_RESPONSE", "STATUS_HELP", "AGENT_RESPONSE", "CUSTOM"}

\* templateType = null, the default of sendSMS.
NoTemplate == "null"

\* The template types callers pass: none, the one of a payment receipt, the
\* one of the balance alert of smsScheduler.js.
GivenTemplateTypes == {NoTemplate, "PAYMENT_RECEIVED", "BALANCE_ALERT"}

\* An SMSLog validation that lets a document without phoneNumber pass.
SmsLogValidatesWithoutNumber(doc) ==
  /\ doc.templateType \in SmsTemplateTypes \cup {NoTemplate}
  /\ doc.gateway \in Gateways

\* SMSLog.create(doc): phoneNumber and gateway are required, gateway and
\* templateType are checked against their enums (a null templateType passes).
SmsLogValidates(doc) ==
  /\ doc.phoneNumber # Null
  /\ doc.templateType \in SmsTemplateTypes \cup {NoTemplate}
  /\ doc.gateway \in Gateways

SmsLogDoc(phoneNumber, templateType, gateway, status) ==
  [phoneNumber |-> phoneNumber, templateType |-> templateType,
   gateway |-> gateway, status |-> status]

\* The switch of sendSMS: the preferred gateway, or hubtel by default.
PrimaryGateway(preferredGateway) ==
  IF preferredGateway \in Gateways THEN preferredGateway ELSE "hubtel"

\* ['mnotify', 'africastalking', 'hubtel'].filter(g => g !== preferredGateway)
fallbackGateways(preferredGateway) ==
  SelectSeq(<<"mnotify", "africastalking", "hubtel">>,
            LAMBDA g : g # preferredGateway)

\* One axios.post to gateway g with number to.
Attempt(g, to, accepts) == [gateway |-> g, to |-> to, accepted |-> accepts[g]]

SmsOutcome(result, attempts, logs) ==
  [result |-> result, attempts |-> attempts, logs |-> logs]

\* The loop of sendWithFallback over the gateways left, after the sends and
\* the log documents so far.
RECURSIVE FallbackLoop(_, _, _, _, _, _)
FallbackLoop(gateways, phoneNumber, templateType, accepts, attempts, logs) ==
  IF gateways = <<>> THEN SmsOutcome("All SMS gateways failed", attempts, logs)
  ELSE LET gateway == Head(gateways)
           formattedNumber == formatLiberianNumber(phoneNumber)
           sent == Append(attempts, Attempt(gateway, formattedNumber, accepts))
           doc == SmsLogDoc(formattedNumber, templateType, gateway, "sent")
       IN IF accepts[gateway] /\ SmsLogValidates(doc)
          THEN SmsOutcome("success", sent, Append(logs, doc))
          ELSE FallbackLoop(Tail(gateways), phoneNumber, templateType, accepts,
                            sent, logs)

\* sendWithFallback(phoneNumber, message, templateType, metadata)
sendWithFallback(preferredGateway, phoneNumber, templateType, accepts, attempts, logs) ==
  FallbackLoop(fallbackGateways(preferredGateway), phoneNumber, templateType,
               accepts, attempts, logs)

\* The catch of sendSMS: log the failed attempt, then fall back. A log
\* document that fails validation makes the catch itself throw.
SendSMSCatch(preferredGateway, phoneNumber, templateType, accepts, attempts) ==
  LET doc == SmsLogDoc(formatLiberianNumber(phoneNumber), templateType,
                       preferredGateway, "failed")
  IN IF ~SmsLogValidates(doc) THEN SmsOutcome("ValidationError", attempts, <<>>)
     ELSE sendWithFallback(preferredGateway, phoneNumber, templateType, accepts,
                           attempts, <<doc>>)

\* The whole of sendSMS(phoneNumber, message, templateType): what it returns
\* or throws, the sends it made and the documents it logged.
SendSMSOutcome(preferredGateway, phoneNumber, templateType, accepts) ==
  LET formattedNumber == formatLiberianNumber(phoneNumber)
      first == Attempt(PrimaryGateway(preferredGateway), formattedNumber, accepts)
      doc == SmsLogDoc(formattedNumber, templateType, preferredGateway, "sent")
  IN IF formattedNumber = Null
     THEN SendSMSCatch(preferredGateway, phoneNumber, templateType, accepts, <<>>)
     ELSE IF first.accepted /\ SmsLogValidates(doc)
     THEN SmsOutcome("success", <<first>>, <<doc>>)
     ELSE SendSMSCatch(preferredGateway, phoneNumber, templateType, accepts,
                       <<first>>)

SmsResponse(preferredGateway, op, phoneNumber, templateType, outcome) ==
  [preferredGateway |-> preferredGateway, op |-> op, phoneNumber |-> phoneNumber,
   templateType |-> templateType, result |-> outcome.result,
   attempts |-> outcome.attempts, logs |-> outcome.logs]

sendSMS(phoneNumber, templateType, accepts) ==
  /\ res' = SmsResponse(res.preferredGateway, "sendSMS", phoneNumber, templateType,
                        SendSMSOutcome(res.preferredGateway, phoneNumber,
                                       templateType, accepts))
  /\ UNCHANGED <<payments, invoices, issued, stripeMock, mount, now>>

SendSMS ==
  \E phoneNumber \in PhoneNumbers, templateType \in GivenTemplateTypes,
     accepts \in [Gateways -> BOOLEAN] :
    sendSMS(phoneNumber, templateType, accepts)

SmsInit ==
  /\ payments = <<>>
  /\ invoices = <<>>
  /\ issued = {}
  /\ stripeMock = FALSE
  /\ mount = "server"
  /\ now = 1
  /\ \E preferredGateway \in PreferredGateways :
       res = SmsResponse(preferredGateway, "none",
                         [punctuated |-> FALSE, lead |-> "0", len |-> 10],
                         NoTemplate, SmsOutcome("none", <<>>, <<>>))

SmsNext == SendSMS

SmsSpec == SmsInit /\ [][SmsNext]_vars

\* The gateways a call sent to, in order.
Attempted(attempts) == [i \in 1..Len(attempts) |-> attempts[i].gateway]

\* C29: for a number that can be formatted, sendSMS sends to the preferred
\* gateway first and then, while sends fail, to the other gateways in the
\* order mnotify, africastalking, hubtel; no gateway twice, none after one
\* accepted; it returns success exactly when a gateway accepted and throws
\* 'All SMS gateways failed' exactly when all of them failed - whatever the
\* preferred gateway is set to.
PreferredThenFallback ==
  [][(res'.op = "sendSMS" /\ formatLiberianNumber(res'.phoneNumber) # Null)
       => LET attempts == res'.attempts
              order == Attempted(attempts)
              others == SelectSeq(<<"mnotify", "africastalking", "hubtel">>,
                                  LAMBDA g : g # order[1])
          IN /\ Len(attempts) >= 1
             /\ res.preferredGateway \in Gateways => order[1] = res.preferredGateway
             /\ \A i \in 2..Len(order) : order[i] = others[i - 1]
             /\ \A i, j \in 1..Len(order) : i # j => order[i] # order[j]
             /\ \A i \in 1..(Len(attempts) - 1) : ~attempts[i].accepted
             /\ res'.result = "success"
                  <=> \E i \in 1..Len(attempts) : attempts[i].accepted
             /\ res'.result = "All SMS gateways failed"
                  <=> /\ {order[i] : i \in 1..Len(order)} = Gateways
                      /\ \A i \in 1..Len(attempts) : ~attempts[i].accepted]_vars

\* C30: for a number formatLiberianNumber rejects, sendSMS fails and sends
\* to no gateway, neither the preferred one nor a fallback.
RejectedNumberNeverSent ==
  [][(res'.op = "sendSMS" /\ formatLiberianNumber(res'.phoneNumber) = Null)
       => /\ res'.attempts = <<>>
          /\ res'.result # "success"]_vars

\* C30 happens: a call for a seven-digit number threw the validation error
\* of its own failure log, with no send and no log document.
RejectedNumberRefused ==
  /\ res.op = "sendSMS"
  /\ res.phoneNumber.len = 7
  /\ res.phoneNumber.lead = "7"
  /\ res.preferredGateway = "mnotify"
  /\ res.result = "ValidationError"
  /\ res.attempts = <<>>
  /\ res.logs = <<>>

(***************************************************************************)
(* Reconciliation: the report handlers of                                  *)
(* backend/controllers/paymentReconciliation.js and the SMS sweeps of      *)
(* backend/services/smsScheduler.js over a stored ledger. In this          *)
(* specification payments holds payments with their whole record, the      *)
(* clock runs, and res is the answer of the report asked for last.         *)
(***************************************************************************)
\* The instants of the clock.
Instants == 0..MaxTime

\* The stored payments in the order of the collection.
LedgerOrder == [i \in 1..NumReminded |-> i]

\* What has happened to a stored payment: completed at paidAt; failed, having
\* been completed before or not; or pending.
Stories ==
  [status : {"completed"}, paymentMethod : {"stripe", "paypal"},
   paidAt : Instants, createdAt : {0}, dueDate : {1}]
    \cup {s \in [status : {"failed"}, paymentMethod : {"stripe"},
                 paidAt : {Missing} \cup Instants, createdAt : Instants,
                 dueDate : {1}] : s.paidAt \in {Missing, s.createdAt}}
    \cup [status : {"pending"}, paymentMethod : {"bank_transfer"},
          paidAt : {Missing}, createdAt : {0}, dueDate : DueTimes]

\* Payment p with its client populated; its amount is 50 p.
StoredPayment(p, story, companyName, description) ==
  [invoiceNumber |-> p,
   client |-> [id |-> p, companyName |-> companyName],
   amount |-> 50 * p,
   currency |-> "USD",
   description |-> description,
   status |-> story.status,
   paymentMethod |-> story.paymentMethod,
   paidAt |-> story.paidAt,
   createdAt |-> story.createdAt,
   dueDate |-> story.dueDate]

\* payments.reduce((sum, payment) => sum + payment.amount, 0)
RECURSIVE SumAmounts(_, _)
SumAmounts(pays, ids) ==
  IF ids = <<>> THEN 0
  ELSE SumAmounts(pays, SubSeq(ids, 1, Len(ids) - 1)) + pays[ids[Len(ids)]].amount

\* new Date(today.setHours(0, 0, 0, 0)) and new Date(today.setHours(23, 59, 59, 999))
startOfDay(t) == (t \div DayLength) * DayLength

endOfDay(t) == startOfDay(t) + DayLength - 1

\* A query for the payments paid in the range, whatever their status.
FindPaidAnyStatus(pays, from, to) ==
  SelectSeq(LedgerOrder, LAMBDA p : from <= pays[p].paidAt /\ pays[p].paidAt <= to)

\* Payment.find({ paidAt: { $gte: from, $lte: to }, status: 'completed' })
FindCompleted(pays, from, to) ==
  SelectSeq(LedgerOrder,
            LAMBDA p : /\ from <= pays[p].paidAt
                       /\ pays[p].paidAt <= to
                       /\ pays[p].status = "completed")

\* Payment.find({ createdAt: { $gte: from, $lte: to }, status: 'failed' })
FindFailed(pays, from, to) ==
  SelectSeq(LedgerOrder,
            LAMBDA p : /\ from <= pays[p].createdAt
                       /\ pays[p].createdAt <= to
                       /\ pays[p].status = "failed")

\* The forEach that groups the amounts by payment method.
GroupByMethod(pays, ids) ==
  [method \in {pays[ids[i]].paymentMethod : i \in 1..Len(ids)} |->
     SumAmounts(pays, SelectSeq(ids, LAMBDA p : pays[p].paymentMethod = method))]

\* process.env.ADMIN_EMAIL || 'admin@liberiacclearlogistics.com'
OperationsAddress == "ADMIN_EMAIL"

\* POST /api/payment-reports/reconcile. emailOk: sendEmail resolves.
dailyReconciliation(emailOk) ==
  LET todaysPayments == FindCompleted(payments, startOfDay(now), endOfDay(now))
      failedPayments == FindFailed(payments, startOfDay(now), endOfDay(now))
      dailySummary == [date |-> startOfDay(now),
                       totalPayments |-> Len(todaysPayments),
                       totalAmount |-> SumAmounts(payments, todaysPayments),
                       paymentMethods |-> GroupByMethod(payments, todaysPayments),
                       failedPayments |-> Len(failedPayments)]
  IN /\ res' = IF emailOk
               THEN OverdueResponse("dailyReconciliation", 200,
                                    [summary |-> dailySummary,
                                     mail |-> [to |-> OperationsAddress,
                                               summary |-> dailySummary]],
                                    {})
               ELSE OverdueResponse("dailyReconciliation", 500,
                                    [message |-> "sendEmail"], {})
     /\ UNCHANGED <<payments, invoices, issued, stripeMock, mount, now>>

DailyReconciliation == \E emailOk \in BOOLEAN : dailyReconciliation(emailOk)

\* The days of a month and of the analytics window (30), and the days a
\* reminder looks ahead (3), on the scale of the clock of the model.
MonthDays == 2

AnalyticsDays == 1

ReminderDays == 1

\* new Date(targetYear, targetMonth - 1, 1) and
\* new Date(targetYear, targetMonth, 0, 23, 59, 59) of month k.
startOfMonth(k) == k * MonthDays * DayLength

endOfMonth(k) == (k + 1) * MonthDays * DayLength - 1

\* The month of instant t: what new Date().getMonth() gives at t.
MonthOf(t) == t \div (MonthDays * DayLength)

\* { $dayOfMonth: '$paidAt' }
DayOf(t) == t \div DayLength

\* A $group stage by the day of paidAt: total and count for each day.
GroupByDay(pays, ids) ==
  [day \in {DayOf(pays[ids[i]].paidAt) : i \in 1..Len(ids)} |->
     LET ofDay == SelectSeq(ids, LAMBDA p : DayOf(pays[p].paidAt) = day)
     IN [totalAmount |-> SumAmounts(pays, ofDay), count |-> Len(ofDay)]]

\* $group by client, $sort { totalPaid: -1 }: the clients by what they paid,
\* largest first.
RECURSIVE TopClients(_, _)
TopClients(pays, ids) ==
  IF ids = <<>> THEN <<>>
  ELSE LET top == CHOOSE i \in 1..Len(ids) :
                    \A j \in 1..Len(ids) : pays[ids[j]].amount <= pays[ids[i]].amount
           rest == SelectSeq(ids, LAMBDA p : p # ids[top])
       IN <<[companyName |-> pays[ids[top]].client.companyName,
             totalPaid |-> pays[ids[top]].amount]>>
            \o TopClients(pays, rest)

\* GET /api/payment-reports/reports/monthly?month=k (the current month when
\* the query names none). The quotients of the report are left out.
getMonthlyRevenueReport(month) ==
  LET target == IF month = Missing THEN MonthOf(now) ELSE month
      monthly == FindCompleted(payments, startOfMonth(target), endOfMonth(target))
  IN /\ res' = OverdueResponse("getMonthlyRevenueReport", 200,
                               [period |-> target,
                                totalRevenue |-> SumAmounts(payments, monthly),
                                totalTransactions |-> Len(monthly),
                                dailyBreakdown |-> GroupByDay(payments, monthly),
                                paymentMethodSummary |-> GroupByMethod(payments, monthly),
                                topClients |-> TopClients(payments, monthly)],
                               {})
     /\ UNCHANGED <<payments, invoices, issued, stripeMock, mount, now>>

\* GET /api/payment-reports/analytics
getPaymentAnalytics ==
  LET thirtyDaysAgo == now - AnalyticsDays * DayLength
      paid == FindCompleted(payments, thirtyDaysAgo, MaxTime)
      created == SelectSeq(LedgerOrder, LAMBDA p : payments[p].createdAt >= thirtyDaysAgo)
      overdue == FindOverdue(payments, now, NumReminded)
  IN /\ res' = OverdueResponse("getPaymentAnalytics", 200,
                               [revenueTrends |-> GroupByDay(payments, paid),
                                methodDistribution |-> GroupByMethod(payments, paid),
                                successRates |->
                                  [method \in {payments[created[i]].paymentMethod :
                                                 i \in 1..Len(created)} |->
                                     [totalAttempts |->
                                        Len(SelectSeq(created, LAMBDA p :
                                              payments[p].paymentMethod = method)),
                                      successfulPayments |->
                                        Len(SelectSeq(created, LAMBDA p :
                                              /\ payments[p].paymentMethod = method
                                              /\ payments[p].status = "completed"))]],
                                overdueSummary |->
                                  [totalOverdueAmount |-> SumAmounts(payments, overdue),
                                   overdueCount |-> Len(overdue)],
                                totalRevenue |-> SumAmounts(payments, paid),
                                totalTransactions |-> Len(paid)],
                               {})
     /\ UNCHANGED <<payments, invoices, issued, stripeMock, mount, now>>

(***************************************************************************)
(* The CSV export. A text is a sequence of characters; a word without      *)
(* comma, quote or line break (a header, a status) counts as one character.*)
(***************************************************************************)
\* Longest company name and description, in characters.
MaxText == 1

Comma == ","

Quote == "\""

LineBreak == "\n"

\* The characters of a company name or a description.
Chars == {"a", Comma, Quote, LineBreak}

Texts == UNION {[1..n -> Chars] : n \in 0..MaxText}

DigitChars == <<"0", "1", "2", "3", "4", "5", "6", "7", "8", "9">>

\* A number as [].join(',') writes it: its decimal digits.
RECURSIVE NumberText(_)
NumberText(n) ==
  IF n < 10 THEN <<DigitChars[n + 1]>>
  ELSE NumberText(n \div 10) \o <<DigitChars[(n % 10) + 1]>>

\* array.join(separator)
RECURSIVE Join(_, _)
Join(texts, separator) ==
  IF texts = <<>> THEN <<>>
  ELSE IF Len(texts) = 1 THEN texts[1]
  ELSE texts[1] \o <<separator>> \o Join(Tail(texts), separator)

CsvHeaders ==
  <<<<"Invoice Number">>, <<"Client">>, <<"Amount">>, <<"Currency">>,
    <<"Payment Method">>, <<"Status">>, <<"Paid Date">>, <<"Description">>>>

\* `"${text}"`
Quoted(text) == <<Quote>> \o text \o <<Quote>>

\* new Date(payment.paidAt).toISOString().split('T')[0], or '' without paidAt
PaidDate(payment) ==
  IF payment.paidAt = Missing THEN <<>> ELSE NumberText(DayOf(payment.paidAt))

\* The row of one payment.
CsvRow(payment) ==
  Join(<<NumberText(payment.invoiceNumber),
         Quoted(payment.client.companyName),
         NumberText(payment.amount),
         <<payment.currency>>,
         <<payment.paymentMethod>>,
         <<payment.status>>,
         PaidDate(payment),
         Quoted(payment.description)>>,
       Comma)

\* convertPaymentsToCSV(payments), for the payments ids of the ledger pays
convertPaymentsToCSV(pays, ids) ==
  Join(<<Join(CsvHeaders, Comma)>> \o [i \in 1..Len(ids) |-> CsvRow(pays[ids[i]])],
       LineBreak)

\* .sort({ paidAt: -1 }): latest payment first.
RECURSIVE SortByPaidAtDesc(_, _)
SortByPaidAtDesc(pays, ids) ==
  IF ids = <<>> THEN <<>>
  ELSE LET latest == CHOOSE i \in 1..Len(ids) :
                       /\ \A j \in 1..Len(ids) : pays[ids[j]].paidAt <= pays[ids[i]].paidAt
                       /\ \A j \in 1..(i - 1) : pays[ids[j]].paidAt < pays[ids[i]].paidAt
       IN <<ids[latest]>>
            \o SortByPaidAtDesc(pays, SelectSeq(ids, LAMBDA p : p # ids[latest]))

\* No startDate / endDate in the query.
NoRange == [from |-> Missing, to |-> Missing]

\* GET /api/payment-reports/export?startDate=&endDate=&format=
exportPaymentsToCSV(range, format) ==
  LET found == IF range = NoRange
               THEN SelectSeq(LedgerOrder, LAMBDA p : payments[p].status = "completed")
               ELSE FindCompleted(payments, range.from, range.to)
      sorted == SortByPaidAtDesc(payments, found)
  IN /\ res' = OverdueResponse("exportPaymentsToCSV", 200,
                               [range |-> range,
                                format |-> format,
                                body |-> IF format = "csv"
                                         THEN convertPaymentsToCSV(payments, sorted)
                                         ELSE <<>>,
                                payments |-> sorted],
                               {})
     /\ UNCHANGED <<payments, invoices, issued, stripeMock, mount, now>>

\* The ranges a query names: none, or from a date to a date, each read by
\* new Date(...) as the first instant of its day.
ExportRanges ==
  {NoRange} \cup {r \in [from : Instants, to : Instants] :
                    /\ r.from <= r.to
                    /\ r.from = startOfDay(r.from)
                    /\ r.to = startOfDay(r.to)}

ExportToCSV ==
  \E range \in ExportRanges, format \in {"csv", "json"} :
    exportPaymentsToCSV(range, format)

(***************************************************************************)
(* Reading a CSV text back, field by field, with the usual quoting rules:  *)
(* a field that begins with a quote runs to the next quote that is not     *)
(* doubled, commas and line breaks in it are text and a doubled quote is   *)
(* one quote; other fields run to the next comma or line break.            *)
(***************************************************************************)
\* The rows read so far, the row and the field being read, from character i;
\* mode: at the start of a field, in a plain field, in a quoted field, or
\* behind the closing quote of one.
RECURSIVE ParseFrom(_, _, _, _, _, _)
ParseFrom(text, i, mode, field, row, rows) ==
  IF i > Len(text) THEN Append(rows, Append(row, field))
  ELSE LET c == text[i]
       IN IF mode = "quoted"
          THEN IF c # Quote
               THEN ParseFrom(text, i + 1, "quoted", Append(field, c), row, rows)
               ELSE IF i < Len(text) /\ text[i + 1] = Quote
               THEN ParseFrom(text, i + 2, "quoted", Append(field, Quote), row, rows)
               ELSE ParseFrom(text, i + 1, "closed", field, row, rows)
          ELSE IF c = Comma
          THEN ParseFrom(text, i + 1, "start", <<>>, Append(row, field), rows)
          ELSE IF c = LineBreak
          THEN ParseFrom(text, i + 1, "start", <<>>, <<>>,
                         Append(rows, Append(row, field)))
          ELSE IF c = Quote /\ mode = "start"
          THEN ParseFrom(text, i + 1, "quoted", field, row, rows)
          ELSE ParseFrom(text, i + 1, "plain", Append(field, c), row, rows)

ParseCsv(text) == ParseFrom(text, 1, "start", <<>>, <<>>, <<>>)

(***************************************************************************)
(* The scheduled SMS sweeps of smsScheduler.js.                            *)
(***************************************************************************)
\* An SMS helper that cancels the payment it has notified about.
SendPaymentSMSAndCancel(pays, paymentId, notificationType, smsOk) ==
  [payments |-> IF smsOk THEN [pays EXCEPT ![paymentId].status = "cancelled"]
                ELSE pays,
   threw |-> ~smsOk]

\* sendPaymentSMS(paymentId, notificationType): Payment.findById, the text of
\* the template, SMSService.sendSMS; it throws what sendSMS throws. Returns
\* the ledger as it leaves it and whether it threw.
sendPaymentSMS(pays, paymentId, notificationType, smsOk) ==
  [payments |-> pays, threw |-> ~smsOk]

\* for (const payment of found) { try { await sendPaymentSMS(...); sentCount++ }
\* catch { errorCount++ } }. throws: the payments whose SMS throws.
RECURSIVE SweepLoop(_, _, _, _)
SweepLoop(pays, ids, notificationType, throws) ==
  IF ids = <<>> THEN [payments |-> pays, sentCount |-> 0, errorCount |-> 0]
  ELSE LET n == Len(ids)
           done == SweepLoop(pays, SubSeq(ids, 1, n - 1), notificationType, throws)
           sms == sendPaymentSMS(done.payments, ids[n], notificationType,
                                 ids[n] \notin throws)
       IN IF sms.threw
          THEN [done EXCEPT !.payments = sms.payments, !.errorCount = @ + 1]
          ELSE [done EXCEPT !.payments = sms.payments, !.sentCount = @ + 1]

\* Payment.find({ status: 'pending', dueDate: { $gte: today, $lte: threeDaysFromNow } })
FindUpcoming(pays, t) ==
  SelectSeq(LedgerOrder,
            LAMBDA p : /\ pays[p].status = "pending"
                       /\ t <= pays[p].dueDate
                       /\ pays[p].dueDate <= t + ReminderDays * DayLength)

\* The job of a sweep over the payments found.
Sweep(op, found, notificationType, throws) ==
  LET done == SweepLoop(payments, found, notificationType, throws)
  IN /\ payments' = done.payments
     /\ res' = OverdueResponse(op, 0,
                               [sentCount |-> done.sentCount,
                                errorCount |-> done.errorCount,
                                found |-> found],
                               throws)
     /\ UNCHANGED <<invoices, issued, stripeMock, mount, now>>

\* cron '0 9 * * *': reminders for the payments due soon
reminderSweep(throws) ==
  Sweep("reminderSweep", FindUpcoming(payments, now), "reminder", throws)

\* cron '0 10 * * 1': notices for the overdue payments
overdueSweep(throws) ==
  Sweep("overdueSweep", FindOverdue(payments, now, NumReminded), "overdue", throws)

ReminderSweep ==
  \E throws \in SUBSET {p \in RemindedIds :
                          payments[p].status = "pending" /\ payments[p].dueDate >= now} :
    reminderSweep(throws)

OverdueSweep ==
  \E throws \in SUBSET {p \in RemindedIds :
                          payments[p].status = "pending" /\ payments[p].dueDate < now} :
    overdueSweep(throws)

MonthlyRevenueReport ==
  \E month \in {Missing} \cup {MonthOf(t) : t \in Instants} :
    getMonthlyRevenueReport(month)

(***************************************************************************)
(* The reports and the sweeps over a ledger of payments of either method,  *)
(* paid on the first day or the second, failed, or pending, asked for at   *)
(* any instant.                                                            *)
(***************************************************************************)
ReportStories ==
  {s \in Stories :
     /\ s.paidAt \in {Missing, 0, DayLength}
     /\ s.createdAt = 0
     /\ (s.paymentMethod = "paypal") <=> (s.paidAt = DayLength)}

\* The ledger in which the payments have the stories given, at instant t.
LedgerOf(stories, t) ==
  /\ payments = [p \in RemindedIds |->
                   StoredPayment(p, stories[p], <<"a">>, <<"a">>)]
  /\ invoices = [p \in RemindedIds |->
                   IF stories[p].status = "completed"
                   THEN [status |-> "paid", paidAt |-> stories[p].paidAt]
                   ELSE NewInvoice("sent")]
  /\ issued = {}
  /\ stripeMock = FALSE
  /\ mount = "server"
  /\ now = t
  /\ res = OverdueResponse("none", 0, [payment |-> 0], {})

ReportInit ==
  \E stories \in [RemindedIds -> ReportStories], t \in Instants :
    LedgerOf(stories, t)

ReportNext ==
  \/ DailyReconciliation
  \/ SendReminders
  \/ MonthlyRevenueReport
  \/ getPaymentAnalytics
  \/ ExportToCSV
  \/ ReminderSweep
  \/ OverdueSweep

ReportSpec == ReportInit /\ [][ReportNext]_vars

\* The requests and jobs that report on the ledger.
ReportOps ==
  {"dailyReconciliation", "sendOverdueReminders", "getMonthlyRevenueReport",
   "getPaymentAnalytics", "exportPaymentsToCSV", "reminderSweep", "overdueSweep"}

\* C21: the reconciliation operations and the two SMS sweeps change no field
\* of any payment or invoice, whether their emails and SMS go out or throw.
ReportsReadOnly ==
  [][res'.op \in ReportOps => payments' = payments /\ invoices' = invoices]_vars

\* C21 happens: an overdue sweep over two pending payments, the SMS of one
\* of which threw, left both pending.
SweptWithAFailure ==
  /\ res.op = "overdueSweep"
  /\ res.data.sentCount = 1
  /\ res.data.errorCount = 1
  /\ \A p \in RemindedIds : payments[p].status = "pending"

(***************************************************************************)
(* The daily reconciliation over a ledger of payments of every story,      *)
(* asked for at any time of any day.                                       *)
(***************************************************************************)
DailyInit == \E stories \in [RemindedIds -> Stories] : LedgerOf(stories, 0)

DailyNext ==
  \/ Tick
  \/ DailyReconciliation

DailySpec == DailyInit /\ [][DailyNext]_vars

\* The instants of the day of now.
Today == {t \in Instants : DayOf(t) = DayOf(now)}

\* The sum of the amounts of a set of payments.
RECURSIVE TotalOf(_)
TotalOf(S) ==
  IF S = {} THEN 0
  ELSE LET p == CHOOSE q \in S : TRUE
       IN payments[p].amount + TotalOf(S \ {p})

CsvStories == {s \in ReportStories : s.status # "failed" /\ s.dueDate = 1}

CsvInit ==
  /\ \E stories \in [RemindedIds -> CsvStories],
        companyNames \in [RemindedIds -> Texts],
        descriptions \in [RemindedIds -> Texts] :
       /\ payments = [p \in RemindedIds |->
                        StoredPayment(p, stories[p], companyNames[p], descriptions[p])]
       /\ invoices = [p \in RemindedIds |->
                        IF stories[p].status = "completed"
                        THEN [status |-> "paid", paidAt |-> stories[p].paidAt]
                        ELSE NewInvoice("sent")]
  /\ issued = {}
  /\ stripeMock = FALSE
  /\ mount = "server"
  /\ now = MaxTime
  /\ res = OverdueResponse("none", 0, [payment |-> 0], {})

CsvNext == ExportToCSV

CsvSpec == CsvInit /\ [][CsvNext]_vars

\* The completed payments a range asks for.
Exported(range) ==
  {p \in RemindedIds :
     /\ payments[p].status = "completed"
     /\ range # NoRange
          => range.from <= payments[p].paidAt /\ payments[p].paidAt <= range.to}

\* C23: the CSV text of an export, read back field by field with the usual
\* quoting rules, has the header row and one row of 8 fields for each
\* exported payment, with the invoice numbers, amounts and statuses of those
\* payments, whatever characters their company names and descriptions hold.
CsvRoundTrips ==
  [][(res'.op = "exportPaymentsToCSV" /\ res'.data.format = "csv")
       => LET rows == ParseCsv(res'.data.body)
              source == Exported(res'.data.range)
          IN /\ Len(rows) = 1 + Cardinality(source)
             /\ rows[1] = CsvHeaders
             /\ \A i \in 2..Len(rows) : Len(rows[i]) = Len(CsvHeaders)
             /\ {<<rows[i][1], rows[i][3], rows[i][6]>> : i \in 2..Len(rows)}
                  = {<<NumberText(payments[p].invoiceNumber),
                       NumberText(payments[p].amount),
                       <<payments[p].status>>>> : p \in source}]_vars

====
